---- MODULE Spec2Model ----
(***************************************************************************)
(* A model of libcobblersignatures: the Osversion record                   *)
(* (models/osversion.py) with its sixteen validated properties and its     *)
(* encode/decode pair, and the catalog of operating system breeds that     *)
(* the command line front end (cli.py) imports, edits and exports.         *)
(*                                                                         *)
(* A Python value is a record of its type and its content, so that         *)
(* isinstance() is a test on the "type" field and two values are equal     *)
(* when type and content are.  A dict is a function whose domain is the    *)
(* set of its keys.                                                        *)
(***************************************************************************)
EXTENDS Integers, Sequences, FiniteSets, TLC

VARIABLES
    rec,        \* the Osversion object under test: field name -> value
    data,       \* the dict last returned by encode() or passed to decode()
    other,      \* a second Osversion object, built by decode() on a fresh one
    old,        \* rec as it was before the last operation
    op,         \* the last operation on rec: [name, field, value]
    err,        \* the exception the last operation raised, or "none"
    steps,      \* number of operations performed so far
    osbreeds,        \* Signatures.osbreeds: the list of breeds of the catalog
    signaturesjson,  \* the document the Signatures object holds
    output,          \* what the last export returned or wrote
    loaded,          \* the breeds of a second, fresh catalog loaded from a dump
    oldbreeds,       \* osbreeds as it was before the last operation
    oldjson,         \* signaturesjson as it was before the last operation
    cop,             \* the last operation on the catalog and its arguments; for a
                     \* menu: whether it called import/export, and whether the
                     \* fetch or the write was done
    cerr,            \* the exception the last catalog operation raised, or "none"
    csteps,          \* number of catalog operations performed so far
    equal,      \* the results of rec == other and other == rec, once compared
    heap,       \* the list and dict objects in memory: address -> content
    arg         \* the address of the object last passed to a setter by a caller

recvars == <<rec, data, other, old, op, err, steps>>

catvars == <<osbreeds, signaturesjson, output, loaded, oldbreeds, oldjson, cop, cerr, csteps>>

auxvars == <<equal, heap, arg>>

vars == <<rec, data, other, old, op, err, steps,
          osbreeds, signaturesjson, output, loaded, oldbreeds, oldjson, cop, cerr, csteps,
          equal, heap, arg>>

(***************************************************************************)
(* Bounds of the model.                                                    *)
(***************************************************************************)
MaxRecOps == 2

MaxCatOps == 3

(***************************************************************************)
(* Python values.                                                          *)
(***************************************************************************)
EmptyDict == [k \in {} |-> ""]

Str(s)  == [type |-> "str", v |-> s]

Bool(b) == [type |-> "bool", v |-> b]

List(l) == [type |-> "list", v |-> l]

Dict(d) == [type |-> "dict", v |-> d]

None    == [type |-> "NoneType", v |-> "None"]

\* Elements of a Python list: a str, or something that is not a str.
StrElem(s) == [type |-> "str", repr |-> s]

IntElem(s) == [type |-> "int", repr |-> s]

\* isinstance(value, <type>) for the four types the setters test.
IsInstance(value, type) == value.type = type

(***************************************************************************)
(* The sixteen properties of Osversion, in the order of __init__, encode   *)
(* and decode.                                                             *)
(***************************************************************************)
FieldOrder ==
    << "signatures", "version_file", "version_file_regex", "kernel_arch",
       "kernel_arch_regex", "supported_arches", "supported_repo_breeds",
       "kernel_file", "initrd_file", "isolinux_ok", "default_autoinstall",
       "kernel_options", "kernel_options_post", "template_files",
       "boot_files", "boot_loaders" >>

FieldNames == {FieldOrder[i] : i \in 1..Len(FieldOrder)}

\* The type each setter tests with isinstance().
FieldType(field) ==
    CASE field \in {"signatures", "supported_arches", "supported_repo_breeds",
                    "boot_files"} -> "list"
      [] field = "isolinux_ok" -> "bool"
      [] field = "boot_loaders" -> "dict"
      [] OTHER -> "str"

\* The value the constructor and the deleter of a property assign.
DefaultOf(field) ==
    CASE FieldType(field) = "list" -> List(<<>>)
      [] FieldType(field) = "bool" -> Bool(FALSE)
      [] FieldType(field) = "dict" -> Dict(EmptyDict)
      [] OTHER -> Str("")

\* Osversion.__init__
Osversion == [f \in FieldNames |-> DefaultOf(f)]

(***************************************************************************)
(* Property setters and deleters.  Every setter has the same shape:        *)
(*     if isinstance(value, T): self._field = value                        *)
(*     else: raise TypeError(...)                                          *)
(* and every deleter assigns the default.  The result of a call is the     *)
(* object afterwards and the exception raised ("none" when none is).       *)
(***************************************************************************)
Getter(self, field) == self[field]

\* A setter without its else branch: a value of the wrong type is dropped
\* and nothing is raised.
SetterNeverRaises(self, field, value) ==
    IF IsInstance(value, FieldType(field))
    THEN [rec |-> [self EXCEPT ![field] = value], err |-> "none"]
    ELSE [rec |-> self, err |-> "none"]

\* A setter that assigns before it tests the type.
SetterAssignsFirst(self, field, value) ==
    [rec |-> [self EXCEPT ![field] = value],
     err |-> IF IsInstance(value, FieldType(field)) THEN "none" ELSE "TypeError"]

Setter(self, field, value) ==
    IF IsInstance(value, FieldType(field))
    THEN [rec |-> [self EXCEPT ![field] = value], err |-> "none"]
    ELSE [rec |-> self, err |-> "TypeError"]

\* A deleter that leaves None in the attribute.
DeleterAssignsNone(self, field) == [self EXCEPT ![field] = None]

Deleter(self, field) == [self EXCEPT ![field] = DefaultOf(field)]

\* Osversion.__eq__ for two Osversion objects: the conjunction over all
\* sixteen properties (template_files is read from other._template_files,
\* the attribute behind the property).
\* A comparison that leaves template_files out.
EqIgnoresTemplateFiles(self, that) ==
    \A field \in FieldNames \ {"template_files"} :
        Getter(self, field) = Getter(that, field)

Eq(self, that) ==
    \A field \in FieldNames : Getter(self, field) = Getter(that, field)

(***************************************************************************)
(* encode: a new dict with the sixteen keys, each holding what the         *)
(* property (for template_files: the attribute behind it) holds.           *)
(***************************************************************************)
\* An encode whose "kernel_options_post" line reads kernel_options.
EncodeCopyPaste(self) ==
    ("kernel_options_post" :> Getter(self, "kernel_options"))
    @@ [k \in FieldNames |-> Getter(self, k)]

Encode(self) ==
    ("signatures" :> Getter(self, "signatures"))
    @@ ("version_file" :> Getter(self, "version_file"))
    @@ ("version_file_regex" :> Getter(self, "version_file_regex"))
    @@ ("kernel_arch" :> Getter(self, "kernel_arch"))
    @@ ("kernel_arch_regex" :> Getter(self, "kernel_arch_regex"))
    @@ ("supported_arches" :> Getter(self, "supported_arches"))
    @@ ("supported_repo_breeds" :> Getter(self, "supported_repo_breeds"))
    @@ ("kernel_file" :> Getter(self, "kernel_file"))
    @@ ("initrd_file" :> Getter(self, "initrd_file"))
    @@ ("isolinux_ok" :> Getter(self, "isolinux_ok"))
    @@ ("default_autoinstall" :> Getter(self, "default_autoinstall"))
    @@ ("kernel_options" :> Getter(self, "kernel_options"))
    @@ ("kernel_options_post" :> Getter(self, "kernel_options_post"))
    @@ ("template_files" :> self["template_files"])
    @@ ("boot_files" :> Getter(self, "boot_files"))
    @@ ("boot_loaders" :> Getter(self, "boot_loaders"))

(***************************************************************************)
(* decode: sixteen assignments through the setters, in source order, each  *)
(* of data.get(key, fallback).  The first setter that raises ends the      *)
(* call; the assignments before it have been made.                         *)
(***************************************************************************)
\* dict.get(key, fallback)
DictGet(d, key, fallback) == IF key \in DOMAIN d THEN d[key] ELSE fallback

\* The second argument of data.get() on each line of decode.
DecodeFallback(field) ==
    CASE field \in {"signatures", "supported_arches", "supported_repo_breeds",
                    "kernel_file", "boot_files"} -> List(<<>>)
      [] field = "isolinux_ok" -> Bool(FALSE)
      [] field = "boot_loaders" -> Dict(EmptyDict)
      [] OTHER -> Str("")

RECURSIVE DecodeFrom(_, _, _)
DecodeFrom(self, d, i) ==
    IF i > Len(FieldOrder)
    THEN [rec |-> self, err |-> "none"]
    ELSE LET field == FieldOrder[i]
             set   == Setter(self, field, DictGet(d, field, DecodeFallback(field)))
         IN  IF set.err # "none" THEN set ELSE DecodeFrom(set.rec, d, i + 1)

\* A decode that leaves out its first line.
DecodeSkipsFirst(self, d) == DecodeFrom(self, d, 2)

\* A decode that assigns only the keys the dict holds and leaves the other
\* fields as they are.
RECURSIVE DecodePresentFrom(_, _, _)
DecodePresentFrom(self, d, i) ==
    IF i > Len(FieldOrder) THEN [rec |-> self, err |-> "none"]
    ELSE LET field == FieldOrder[i]
             set == IF field \in DOMAIN d THEN Setter(self, field, d[field])
                    ELSE [rec |-> self, err |-> "none"]
         IN  IF set.err # "none" THEN set ELSE DecodePresentFrom(set.rec, d, i + 1)

DecodeKeepsMissing(self, d) == DecodePresentFrom(self, d, 1)

Decode(self, d) == DecodeFrom(self, d, 1)

(***************************************************************************)
(* Inputs.                                                                 *)
(***************************************************************************)
\* Values a caller may pass to a setter: one of each type the setters
\* accept, a list holding a non-string, and None.
Values ==
    { Str("a"), Bool(TRUE), List(<<StrElem("a")>>), List(<<IntElem("7")>>),
      Dict("grub" :> "grub.efi"), None }

\* A correctly typed, non-default value for each key.
Sample(field) ==
    CASE FieldType(field) = "list" -> List(<<StrElem(field)>>)
      [] FieldType(field) = "bool" -> Bool(TRUE)
      [] FieldType(field) = "dict" -> Dict("grub" :> "grub.efi")
      [] OTHER -> Str(field)

FullFragment == [k \in FieldNames |-> Sample(k)]

Restrict(d, keys) == [k \in (DOMAIN d) \cap keys |-> d[k]]

\* Fragments with keys missing: none, one, all but one, all.
PartialFragments ==
    {FullFragment, EmptyDict}
    \cup {Restrict(FullFragment, FieldNames \ {k}) : k \in FieldNames}
    \cup {Restrict(FullFragment, {"kernel_file", k}) : k \in FieldNames}

\* Fragments with a key that is no property, and fragments with one key of
\* the wrong type (first, middle and last in decode order).
OddFragments ==
    { FullFragment @@ ("unknown_key" :> Str("x")),
      ("signatures" :> None) @@ FullFragment,
      ("isolinux_ok" :> Str("yes")) @@ FullFragment,
      ("boot_loaders" :> List(<<>>)) @@ FullFragment,
      ("kernel_options" :> Bool(TRUE)) @@ Restrict(FullFragment, {"kernel_file", "version_file"}) }

Fragments == PartialFragments \cup OddFragments

(***************************************************************************)
(* The catalog: Signatures.osbreeds is a list of breeds, each a name and   *)
(* a dict of version name -> Osversion.  The Signatures and Osbreed        *)
(* classes are not among the sources; their operations follow the          *)
(* specification (sections 4.2 and 4.3).  A document is a mapping from     *)
(* breed name to (version name -> fragment); it keeps insertion order, so  *)
(* it is a sequence of entries with distinct names.                        *)
(***************************************************************************)
Osbreed(name) == [name |-> name, osversions |-> EmptyDict]

\* Signatures(): no breeds, an empty document.
Signatures == [osbreeds |-> <<>>, signaturesjson |-> <<>>]

\* Python list indexing, positions 0 .. len-1.
InRange(index, list) == index \in 0..(Len(list) - 1)

At(list, index) == list[index + 1]

RemoveAt(list, index) == SubSeq(list, 1, index) \o SubSeq(list, index + 2, Len(list))

\* addBreed(name): append, without a uniqueness check.
AddOsBreed(breeds, name) == [osbreeds |-> Append(breeds, Osbreed(name)), err |-> "none"]

\* A removeBreed that takes an index past the end for the last position.
RemoveOsBreedClamps(breeds, index) ==
    IF breeds = <<>> \/ index < 0
    THEN [osbreeds |-> breeds, err |-> "IndexError"]
    ELSE [osbreeds |-> RemoveAt(breeds, IF index < Len(breeds) THEN index ELSE Len(breeds) - 1),
          err |-> "none"]

\* removeBreed(index)
RemoveOsBreed(breeds, index) ==
    IF InRange(index, breeds)
    THEN [osbreeds |-> RemoveAt(breeds, index), err |-> "none"]
    ELSE [osbreeds |-> breeds, err |-> "IndexError"]

\* renameBreed(index, newName): only the name is replaced.
\* A rename that puts a new, empty breed of the new name in the place.
RenameOsBreedFresh(breeds, index, name) ==
    IF InRange(index, breeds)
    THEN [osbreeds |-> [breeds EXCEPT ![index + 1] = Osbreed(name)], err |-> "none"]
    ELSE [osbreeds |-> breeds, err |-> "IndexError"]

RenameOsBreed(breeds, index, name) ==
    IF InRange(index, breeds)
    THEN [osbreeds |-> [breeds EXCEPT ![index + 1].name = name], err |-> "none"]
    ELSE [osbreeds |-> breeds, err |-> "IndexError"]

\* dict[key] = value
DictSet(d, key, value) == (key :> value) @@ d

\* del dict[key]
DictDel(d, key) == [k \in (DOMAIN d) \ {key} |-> d[k]]

\* An addVersion that keeps the version already stored under the name.
AddOsVersionKeepsFirst(breeds, index, version, record) ==
    IF InRange(index, breeds)
    THEN [osbreeds |-> [breeds EXCEPT ![index + 1].osversions =
                            @ @@ (version :> record)],
          err |-> "none"]
    ELSE [osbreeds |-> breeds, err |-> "IndexError"]

\* addVersion(index, version, record): record is the initial record, or a
\* newly constructed Osversion when the caller passes None.
AddOsVersion(breeds, index, version, record) ==
    IF InRange(index, breeds)
    THEN [osbreeds |-> [breeds EXCEPT ![index + 1].osversions =
                            DictSet(@, version, record)],
          err |-> "none"]
    ELSE [osbreeds |-> breeds, err |-> "IndexError"]

\* A removal that reports success and deletes nothing.
RemoveOsVersionKeeps(breeds, index, version) ==
    IF InRange(index, breeds)
    THEN [osbreeds |-> breeds, err |-> "none"]
    ELSE [osbreeds |-> breeds, err |-> "IndexError"]

\* removeVersion(index, version)
RemoveOsVersion(breeds, index, version) ==
    IF ~InRange(index, breeds)
    THEN [osbreeds |-> breeds, err |-> "IndexError"]
    ELSE IF version \notin DOMAIN At(breeds, index).osversions
    THEN [osbreeds |-> breeds, err |-> "KeyError"]
    ELSE [osbreeds |-> [breeds EXCEPT ![index + 1].osversions = DictDel(@, version)],
          err |-> "none"]

(***************************************************************************)
(* dumpToDocument / loadFromDocument.                                      *)
(***************************************************************************)
\* The position of a key in an insertion-ordered mapping, 0 when absent.
KeyPos(doc, name) ==
    IF \E i \in 1..Len(doc) : doc[i].name = name
    THEN CHOOSE i \in 1..Len(doc) : doc[i].name = name
    ELSE 0

\* mapping[name] = versions: a new key goes last, an old key keeps its place.
DocSet(doc, name, versions) ==
    IF KeyPos(doc, name) = 0
    THEN Append(doc, [name |-> name, versions |-> versions])
    ELSE [doc EXCEPT ![KeyPos(doc, name)].versions = versions]

\* One breed of the document: version name -> encode() of its record.
EncodeVersions(breed) ==
    [v \in DOMAIN breed.osversions |-> Encode(breed.osversions[v])]

RECURSIVE DumpFrom(_, _, _)
DumpFrom(breeds, i, doc) ==
    IF i > Len(breeds) THEN doc
    ELSE DumpFrom(breeds, i + 1, DocSet(doc, breeds[i].name, EncodeVersions(breeds[i])))

\* dumpToDocument(): breed name -> version name -> encode().
DumpToDocument(breeds) == DumpFrom(breeds, 1, <<>>)

\* Does decode of every fragment of the document succeed on a new record?
DecodeFails(doc) ==
    \E i \in 1..Len(doc) : \E v \in DOMAIN doc[i].versions :
        Decode(Osversion, doc[i].versions[v]).err # "none"

DecodeVersions(entry) ==
    [name |-> entry.name,
     osversions |-> [v \in DOMAIN entry.versions |-> Decode(Osversion, entry.versions[v]).rec]]

\* loadFromDocument(document): the breeds are replaced by the decoded
\* document, or kept as they are when a decode fails.
LoadFromDocument(breeds, doc) ==
    IF DecodeFails(doc)
    THEN [osbreeds |-> breeds, err |-> "TypeError"]
    ELSE [osbreeds |-> [i \in 1..Len(doc) |-> DecodeVersions(doc[i])], err |-> "none"]

\* Codec: a document rendered as text, and text parsed into a document.
Render(doc) == [text |-> doc]

Parse(raw) == raw.text

(***************************************************************************)
(* Inputs of the catalog operations.                                       *)
(***************************************************************************)
BreedNames == {"debian", "suse"}

VersionNames == {"10", "15.2"}

RecordA == Setter(Osversion, "kernel_arch", Str("x86_64")).rec

RecordB == Setter(Setter(Osversion, "isolinux_ok", Bool(TRUE)).rec,
                  "template_files", Str("t")).rec

Records == {Osversion, RecordA, RecordB}

\* Values offered to the setters of a record inside the catalog.
EditValues == {Str("a"), Bool(TRUE), None}

\* The fields edited inside the catalog: a list, a str and the bool.
EditFields == {"signatures", "template_files", "isolinux_ok"}

\* Indexes a caller may pass: every position, and some that are none.
Indexes(breeds) == (-1..Len(breeds)) \cup {5}

\* Every position, and the first index past the end.
Positions(breeds) == 0..Len(breeds)

BadFragment == ("isolinux_ok" :> Str("yes")) @@ FullFragment

Entry(name, versions) == [name |-> name, versions |-> versions]

\* The documents offered to load and import: the empty one, one with
\* two breeds, the one of the end-to-end example (two keys only), and one
\* whose last fragment holds a wrongly typed value.
Documents ==
    { <<>>,
      << Entry("debian", ("10" :> Encode(RecordA))),
         Entry("suse", ("15.2" :> Encode(RecordB)) @@ ("10" :> FullFragment)) >>,
      << Entry("debian", ("10" :> ("kernel_arch" :> Str("x86_64"))
                                   @@ ("isolinux_ok" :> Bool(TRUE)))) >>,
      << Entry("debian", ("10" :> FullFragment)),
         Entry("suse", ("10" :> Encode(RecordA)) @@ ("15.2" :> BadFragment)) >> }

\* What SourceAdapter.fetch yields: the raw text of a document, or a failure.
NoFetch == [ok |-> FALSE, raw |-> Render(<<>>)]

FetchResults == {[ok |-> TRUE, raw |-> Render(doc)] : doc \in Documents} \cup {NoFetch}

(***************************************************************************)
(* importSignatures and exportSignatures, and the two menus of cli.py      *)
(* that call them.                                                         *)
(***************************************************************************)
\* importsignatures(kind, locator): the fetched text, parsed, becomes the
\* held document.
ImportSignatures(sig, fetch) ==
    IF fetch.ok
    THEN [osbreeds |-> sig.osbreeds, signaturesjson |-> Parse(fetch.raw), err |-> "none"]
    ELSE [osbreeds |-> sig.osbreeds, signaturesjson |-> sig.signaturesjson,
          err |-> "SourceUnavailableError"]

\* jsontomodels(): load the held document.
JsonToModels(sig) ==
    LET load == LoadFromDocument(sig.osbreeds, sig.signaturesjson)
    IN  [osbreeds |-> load.osbreeds, signaturesjson |-> sig.signaturesjson, err |-> load.err]

\* modelstojson(): dump into the held document.
ModelsToJson(sig) ==
    [osbreeds |-> sig.osbreeds, signaturesjson |-> DumpToDocument(sig.osbreeds), err |-> "none"]

\* exportsignatures(kind, path): the held document as text, returned
\* (STRING) or written (FILE).
ExportSignatures(sig, kind, written) ==
    IF kind = "STRING" THEN [output |-> Render(sig.signaturesjson), err |-> "none"]
    ELSE IF written THEN [output |-> Render(sig.signaturesjson), err |-> "none"]
    ELSE [output |-> Render(<<>>), err |-> "DestinationUnavailableError"]

Unchanged(sig) == [osbreeds |-> sig.osbreeds, signaturesjson |-> sig.signaturesjson, err |-> "none"]

\* An import_menu that goes on to jsontomodels() after a failed fetch,
\* with nothing to load.
ImportMenuLoadsAnyway(sig, choice, source, fetch) ==
    IF choice \in {"URL", "File", "String"}
    THEN IF source = "" THEN Unchanged(sig)
         ELSE LET imp == ImportSignatures(sig, fetch)
              IN  IF imp.err # "none"
                  THEN [osbreeds |-> <<>>, signaturesjson |-> <<>>, err |-> imp.err]
                  ELSE JsonToModels(imp)
    ELSE Unchanged(sig)

\* import_menu(): choice and source are the answers to the two prompts.
ImportMenu(sig, choice, source, fetch) ==
    IF choice \in {"URL", "File", "String"}
    THEN IF source = "" THEN Unchanged(sig)
         ELSE LET imp == ImportSignatures(sig, fetch)
              IN  IF imp.err # "none" THEN imp ELSE JsonToModels(imp)
    ELSE Unchanged(sig)

NoOutput == Render(<<>>)

\* An export_menu that calls jsontomodels() where modelstojson() is meant.
ExportMenuWrongWay(sig, choice, path, written) ==
    IF choice = "String"
    THEN LET m == JsonToModels(sig)
             e == ExportSignatures(m, "STRING", TRUE)
         IN  [osbreeds |-> m.osbreeds, signaturesjson |-> m.signaturesjson,
              output |-> e.output, err |-> e.err]
    ELSE IF choice = "File"
    THEN IF path = ""
         THEN [osbreeds |-> sig.osbreeds, signaturesjson |-> sig.signaturesjson,
               output |-> NoOutput, err |-> "none"]
         ELSE LET m == JsonToModels(sig)
                  e == ExportSignatures(m, "FILE", written)
              IN  [osbreeds |-> m.osbreeds, signaturesjson |-> m.signaturesjson,
                   output |-> e.output, err |-> e.err]
    ELSE [osbreeds |-> sig.osbreeds, signaturesjson |-> sig.signaturesjson,
          output |-> NoOutput, err |-> "none"]

\* export_menu(): choice and path are the answers to the two prompts.
ExportMenu(sig, choice, path, written) ==
    IF choice = "String"
    THEN LET m == ModelsToJson(sig)
             e == ExportSignatures(m, "STRING", TRUE)
         IN  [osbreeds |-> m.osbreeds, signaturesjson |-> m.signaturesjson,
              output |-> e.output, err |-> e.err]
    ELSE IF choice = "File"
    THEN IF path = ""
         THEN [osbreeds |-> sig.osbreeds, signaturesjson |-> sig.signaturesjson,
               output |-> NoOutput, err |-> "none"]
         ELSE LET m == ModelsToJson(sig)
                  e == ExportSignatures(m, "FILE", written)
              IN  [osbreeds |-> m.osbreeds, signaturesjson |-> m.signaturesjson,
                   output |-> e.output, err |-> e.err]
    ELSE [osbreeds |-> sig.osbreeds, signaturesjson |-> sig.signaturesjson,
          output |-> NoOutput, err |-> "none"]

(***************************************************************************)
(* The record under test: operations on one Osversion object.              *)
(***************************************************************************)
NoValue == None

Op(name, field, value) == [name |-> name, field |-> field, value |-> value]

InitRecord ==
    /\ rec = Osversion
    /\ data = EmptyDict
    /\ other = Osversion
    /\ old = Osversion
    /\ op = Op("init", "", NoValue)
    /\ err = "none"
    /\ steps = 0

\* rec.<field> = value
SetField(field, value) ==
    /\ steps < MaxRecOps
    /\ LET set == Setter(rec, field, value)
       IN  /\ rec' = set.rec
           /\ err' = set.err
    /\ old' = rec
    /\ op' = Op("set", field, value)
    /\ steps' = steps + 1
    /\ UNCHANGED <<data, other>>
    /\ UNCHANGED <<catvars, auxvars>>

\* del rec.<field>
DelField(field) ==
    /\ steps < MaxRecOps
    /\ rec' = Deleter(rec, field)
    /\ err' = "none"
    /\ old' = rec
    /\ op' = Op("del", field, NoValue)
    /\ steps' = steps + 1
    /\ UNCHANGED <<data, other>>
    /\ UNCHANGED <<catvars, auxvars>>

\* data = rec.encode()
EncodeRecord ==
    /\ steps < MaxRecOps
    /\ data' = Encode(rec)
    /\ err' = "none"
    /\ old' = rec
    /\ op' = Op("encode", "", NoValue)
    /\ steps' = steps + 1
    /\ UNCHANGED <<rec, other>>
    /\ UNCHANGED <<catvars, auxvars>>

\* rec.decode(d)
DecodeRecord(d) ==
    /\ steps < MaxRecOps
    /\ data' = d
    /\ LET dec == Decode(rec, d)
       IN  /\ rec' = dec.rec
           /\ err' = dec.err
    /\ old' = rec
    /\ op' = Op("decode", "", NoValue)
    /\ steps' = steps + 1
    /\ UNCHANGED other
    /\ UNCHANGED <<catvars, auxvars>>

\* other = Osversion(); other.decode(rec.encode())
RoundTrip ==
    /\ steps < MaxRecOps
    /\ data' = Encode(rec)
    /\ LET dec == Decode(Osversion, Encode(rec))
       IN  /\ other' = dec.rec
           /\ err' = dec.err
    /\ old' = rec
    /\ op' = Op("roundtrip", "", NoValue)
    /\ steps' = steps + 1
    /\ UNCHANGED rec
    /\ UNCHANGED <<catvars, auxvars>>

NextRecord ==
    \/ \E field \in FieldNames, value \in Values : SetField(field, value)
    \/ \E field \in FieldNames : DelField(field)
    \/ EncodeRecord
    \/ \E d \in Fragments : DecodeRecord(d)
    \/ RoundTrip

(***************************************************************************)
(* The catalog as a state machine: one action per operation.               *)
(***************************************************************************)
CatOp(name) ==
    [name |-> name, prev |-> cop.name, previndex |-> cop.index,
     prevversion |-> cop.version, index |-> 0, breed |-> "", version |-> "",
     record |-> Osversion, field |-> "", value |-> NoValue,
     called |-> FALSE, done |-> FALSE]

InitCatalog ==
    /\ osbreeds = Signatures.osbreeds
    /\ signaturesjson = Signatures.signaturesjson
    /\ output = NoOutput
    /\ loaded = <<>>
    /\ oldbreeds = <<>>
    /\ oldjson = <<>>
    /\ cop = [name |-> "init", prev |-> "", previndex |-> 0, prevversion |-> "",
              index |-> 0, breed |-> "", version |-> "", record |-> Osversion,
              field |-> "", value |-> NoValue, called |-> FALSE, done |-> FALSE]
    /\ cerr = "none"
    /\ csteps = 0

\* No comparison made, no object shared with a caller.
NotCompared == [self_other |-> "none", other_self |-> "none"]

InitAux ==
    /\ equal = NotCompared
    /\ heap = <<>>
    /\ arg = 0

Init == InitRecord /\ InitCatalog /\ InitAux

SpecRecord == Init /\ [][NextRecord]_vars

\* The bookkeeping every catalog operation shares.
Record(operation) ==
    /\ csteps < MaxCatOps
    /\ oldbreeds' = osbreeds
    /\ oldjson' = signaturesjson
    /\ cop' = operation
    /\ csteps' = csteps + 1
    /\ UNCHANGED <<recvars, auxvars>>

addBreed(name) ==
    /\ Record([CatOp("addbreed") EXCEPT !.breed = name])
    /\ LET r == AddOsBreed(osbreeds, name)
       IN  osbreeds' = r.osbreeds /\ cerr' = r.err
    /\ UNCHANGED <<signaturesjson, output, loaded>>

removeBreed(index) ==
    /\ Record([CatOp("removebreed") EXCEPT !.index = index])
    /\ LET r == RemoveOsBreed(osbreeds, index)
       IN  osbreeds' = r.osbreeds /\ cerr' = r.err
    /\ UNCHANGED <<signaturesjson, output, loaded>>

renameBreed(index, name) ==
    /\ Record([CatOp("renamebreed") EXCEPT !.index = index, !.breed = name])
    /\ LET r == RenameOsBreed(osbreeds, index, name)
       IN  osbreeds' = r.osbreeds /\ cerr' = r.err
    /\ UNCHANGED <<signaturesjson, output, loaded>>

addVersion(index, version, record) ==
    /\ Record([CatOp("addversion") EXCEPT !.index = index, !.version = version,
                                          !.record = record])
    /\ LET r == AddOsVersion(osbreeds, index, version, record)
       IN  osbreeds' = r.osbreeds /\ cerr' = r.err
    /\ UNCHANGED <<signaturesjson, output, loaded>>

removeVersion(index, version) ==
    /\ Record([CatOp("removeversion") EXCEPT !.index = index, !.version = version])
    /\ LET r == RemoveOsVersion(osbreeds, index, version)
       IN  osbreeds' = r.osbreeds /\ cerr' = r.err
    /\ UNCHANGED <<signaturesjson, output, loaded>>

\* osbreeds[index].osversions[version].<field> = value
editField(index, version, field, value) ==
    /\ InRange(index, osbreeds)
    /\ version \in DOMAIN At(osbreeds, index).osversions
    /\ Record([CatOp("editfield") EXCEPT !.index = index, !.version = version,
                                         !.field = field, !.value = value])
    /\ LET set == Setter(At(osbreeds, index).osversions[version], field, value)
       IN  /\ osbreeds' = [osbreeds EXCEPT ![index + 1].osversions[version] = set.rec]
           /\ cerr' = set.err
    /\ UNCHANGED <<signaturesjson, output, loaded>>

\* loadFromDocument(doc)
loadFromDocument(doc) ==
    /\ Record(CatOp("load"))
    /\ signaturesjson' = doc
    /\ LET r == LoadFromDocument(osbreeds, doc)
       IN  osbreeds' = r.osbreeds /\ cerr' = r.err
    /\ UNCHANGED <<output, loaded>>

\* dumpToDocument()
dumpToDocument ==
    /\ Record(CatOp("dump"))
    /\ LET r == ModelsToJson([osbreeds |-> osbreeds, signaturesjson |-> signaturesjson])
       IN  osbreeds' = r.osbreeds /\ signaturesjson' = r.signaturesjson /\ cerr' = r.err
    /\ UNCHANGED <<output, loaded>>

import_menu(choice, source, fetch) ==
    /\ Record([CatOp("import") EXCEPT
                  !.called = (choice \in {"URL", "File", "String"} /\ source # ""),
                  !.done = fetch.ok])
    /\ LET r == ImportMenu([osbreeds |-> osbreeds, signaturesjson |-> signaturesjson],
                           choice, source, fetch)
       IN  osbreeds' = r.osbreeds /\ signaturesjson' = r.signaturesjson /\ cerr' = r.err
    /\ UNCHANGED <<output, loaded>>

export_menu(choice, path, written) ==
    /\ Record([CatOp("export") EXCEPT
                  !.called = (choice = "String" \/ (choice = "File" /\ path # "")),
                  !.done = (choice = "String" \/ written)])
    /\ LET r == ExportMenu([osbreeds |-> osbreeds, signaturesjson |-> signaturesjson],
                           choice, path, written)
       IN  /\ osbreeds' = r.osbreeds /\ signaturesjson' = r.signaturesjson
           /\ output' = r.output /\ cerr' = r.err
    /\ UNCHANGED loaded

\* "Start from scratch" without the global statement: the new Signatures
\* object is bound to a local name and the catalog stays as it is.
startFromScratchLocal ==
    /\ Record(CatOp("scratch"))
    /\ cerr' = "none"
    /\ UNCHANGED <<osbreeds, signaturesjson, output, loaded>>

\* "Start from scratch": os_signatures = Signatures()
startFromScratch ==
    /\ Record(CatOp("scratch"))
    /\ osbreeds' = Signatures.osbreeds
    /\ signaturesjson' = Signatures.signaturesjson
    /\ cerr' = "none"
    /\ UNCHANGED <<output, loaded>>

\* fresh = Signatures(); fresh.loadFromDocument(catalog.dumpToDocument())
catalogRoundTrip ==
    /\ Record(CatOp("roundtrip"))
    /\ LET r == LoadFromDocument(Signatures.osbreeds, DumpToDocument(osbreeds))
       IN  loaded' = r.osbreeds /\ cerr' = r.err
    /\ UNCHANGED <<osbreeds, signaturesjson, output>>

\* addVersion(index, version, None); removeVersion(index, version)
addThenRemoveVersion(index, version) ==
    /\ Record([CatOp("addremove") EXCEPT !.index = index, !.version = version])
    /\ LET added == AddOsVersion(osbreeds, index, version, Osversion)
           removed == RemoveOsVersion(added.osbreeds, index, version)
       IN  IF added.err # "none"
           THEN osbreeds' = added.osbreeds /\ cerr' = added.err
           ELSE osbreeds' = removed.osbreeds /\ cerr' = removed.err
    /\ UNCHANGED <<signaturesjson, output, loaded>>

\* The answers import_menu can get: no second prompt after "Go Back", no
\* fetch after an empty source.
ImportAnswers ==
    {<<"Go Back", "", NoFetch>>}
    \cup {<<choice, "", NoFetch>> : choice \in {"URL", "File", "String"}}
    \cup {<<choice, "src", fetch>> : choice \in {"URL", "File", "String"},
                                     fetch \in FetchResults}

\* The answers export_menu can get, and whether the file could be written.
ExportAnswers ==
    { <<"Go Back", "", TRUE>>, <<"String", "", TRUE>>, <<"File", "", TRUE>>,
      <<"File", "out.json", TRUE>>, <<"File", "out.json", FALSE>> }

NextCatalog ==
    \/ \E name \in BreedNames : addBreed(name)
    \/ \E index \in Indexes(osbreeds) : removeBreed(index)
    \/ \E index \in Positions(osbreeds), name \in BreedNames : renameBreed(index, name)
    \/ \E index \in Positions(osbreeds), version \in VersionNames, record \in Records :
          addVersion(index, version, record)
    \/ \E index \in Positions(osbreeds), version \in VersionNames :
          removeVersion(index, version)
    \/ \E index \in Positions(osbreeds), version \in VersionNames,
          field \in EditFields, value \in EditValues :
          editField(index, version, field, value)
    \/ \E doc \in Documents : loadFromDocument(doc)
    \/ dumpToDocument
    \/ \E a \in ImportAnswers : import_menu(a[1], a[2], a[3])
    \/ \E a \in ExportAnswers : export_menu(a[1], a[2], a[3])
    \/ startFromScratch
    \/ catalogRoundTrip
    \/ \E index \in Positions(osbreeds), version \in VersionNames :
          addThenRemoveVersion(index, version)

SpecCatalog == Init /\ [][NextCatalog]_vars

(***************************************************************************)
(* What the specification declares for each field: its semantic type and   *)
(* its default.                                                            *)
(***************************************************************************)
StringFields ==
    { "version_file", "version_file_regex", "kernel_arch", "kernel_arch_regex",
      "kernel_file", "initrd_file", "default_autoinstall", "kernel_options",
      "kernel_options_post", "template_files" }

SequenceFields == {"signatures", "supported_arches", "supported_repo_breeds", "boot_files"}

DeclaredFields == StringFields \cup SequenceFields \cup {"isolinux_ok", "boot_loaders"}

DeclaredType(field) ==
    IF field \in StringFields THEN "str"
    ELSE IF field \in SequenceFields THEN "list"
    ELSE IF field = "isolinux_ok" THEN "bool"
    ELSE "dict"

DeclaredDefault(field) ==
    IF field \in StringFields THEN Str("")
    ELSE IF field \in SequenceFields THEN List(<<>>)
    ELSE IF field = "isolinux_ok" THEN Bool(FALSE)
    ELSE Dict(EmptyDict)

\* Every present key of the sixteen holds a value of its declared type.
WellTyped(d) ==
    \A k \in (DOMAIN d) \cap DeclaredFields : d[k].type = DeclaredType(k)

(***************************************************************************)
(* Claims about one Osversion object, checked under SpecRecord.            *)
(***************************************************************************)

\* C1: decode(encode(r)) on a fresh record succeeds and yields a record
\* equal to r, for every r reached through setters, deleters and decode.
C1_RoundTrip ==
    op.name = "roundtrip" =>
        /\ err = "none"
        /\ Eq(other, rec)
        /\ Eq(rec, other)

C1_Witness ==
    /\ op.name = "roundtrip"
    /\ rec # Osversion
    /\ err = "none"
    /\ other = rec

\* C3: a setter called with a value that is not of the field's declared
\* type raises the validation error (TypeError) and leaves all sixteen
\* fields as they were.
C3_TypeRejection ==
    (op.name = "set" /\ op.value.type # DeclaredType(op.field)) =>
        /\ err = "TypeError"
        /\ \A f \in DeclaredFields : rec[f] = old[f]

C3_Witness ==
    /\ op.name = "set"
    /\ op.field = "isolinux_ok"
    /\ op.value.type # "bool"
    /\ err = "TypeError"
    /\ old # Osversion
    /\ rec = old

\* C4: decoding a correctly typed fragment with any keys missing into a
\* fresh record never fails, and the fields of the missing keys hold their
\* defaults.
C4_MissingKeysDefault ==
    (op.name = "decode" /\ old = Osversion /\ WellTyped(data)) =>
        /\ err = "none"
        /\ \A f \in DeclaredFields \ DOMAIN data : rec[f] = DeclaredDefault(f)

\* C5: encode() returns exactly the sixteen keys, each with the current
\* value of its field, and does not change the record.
C5_EncodeKeys ==
    op.name = "encode" =>
        /\ DOMAIN data = DeclaredFields
        /\ \A f \in DeclaredFields : data[f] = rec[f]
        /\ rec = old
        /\ err = "none"

C5_Witness ==
    /\ op.name = "encode"
    /\ rec # Osversion
    /\ rec["kernel_options"] # rec["kernel_options_post"]
    /\ Cardinality(DOMAIN data) = 16

(***************************************************************************)
(* Claims about the catalog, checked under SpecCatalog.                    *)
(***************************************************************************)
\* Two catalogs with the same breed names in the same order, the same
\* version names under each breed, and equal records.
SameCatalog(a, b) ==
    /\ Len(a) = Len(b)
    /\ \A i \in 1..Len(a) :
          /\ i <= Len(b)
          /\ a[i].name = b[i].name
          /\ DOMAIN a[i].osversions = DOMAIN b[i].osversions
          /\ \A v \in DOMAIN a[i].osversions :
                v \in DOMAIN b[i].osversions
                => Eq(a[i].osversions[v], b[i].osversions[v])

\* Some fragment of the document holds a present key of the wrong type.
IllTyped(doc) ==
    \E i \in 1..Len(doc) : \E v \in DOMAIN doc[i].versions : ~WellTyped(doc[i].versions[v])

\* The last operation decoded the held document: a load, or an import
\* whose fetch succeeded.
LoadAttempted ==
    \/ cop.name = "load"
    \/ cop.name = "import" /\ cop.called /\ cop.done

\* C2: loadFromDocument(dumpToDocument(c)) on a fresh catalog yields the
\* breed names, version names and records of c, for every reachable c.
C2_CatalogRoundTrip ==
    cop.name = "roundtrip" =>
        /\ cerr = "none"
        /\ SameCatalog(loaded, osbreeds)

\* C6: a load of a document with a wrongly typed value fails and leaves
\* the breeds, their versions and records as they were.
C6_LoadAllOrNothing ==
    (LoadAttempted /\ IllTyped(signaturesjson)) =>
        /\ cerr = "TypeError"
        /\ osbreeds = oldbreeds

C6_Witness ==
    /\ LoadAttempted
    /\ IllTyped(signaturesjson)
    /\ Len(signaturesjson) = 2
    /\ WellTyped(signaturesjson[1].versions["10"])
    /\ oldbreeds # <<>>
    /\ osbreeds = oldbreeds
    /\ cerr = "TypeError"

\* C7: an import whose fetch fails raises SourceUnavailableError and
\* applies nothing: the breeds and the held document are as before.
C7_FetchFailure ==
    (cop.name = "import" /\ cop.called /\ ~cop.done) =>
        /\ cerr = "SourceUnavailableError"
        /\ osbreeds = oldbreeds
        /\ signaturesjson = oldjson

C7_Witness ==
    /\ cop.name = "import"
    /\ cop.called
    /\ ~cop.done
    /\ cerr = "SourceUnavailableError"
    /\ \E i \in 1..Len(osbreeds) : DOMAIN osbreeds[i].osversions # {}
    /\ osbreeds = oldbreeds

\* C8: a dump or an export, whether or not the write succeeds, leaves the
\* breeds, versions and records unchanged, and a dump that follows a dump
\* yields the same document.
C8_ExportFrame ==
    /\ cop.name \in {"dump", "export"} => osbreeds = oldbreeds
    /\ (cop.prev = "dump" /\ (cop.name = "dump" \/ (cop.name = "export" /\ cop.called)))
          => signaturesjson = oldjson

C8_Witness ==
    /\ cop.name = "export"
    /\ cop.called
    /\ ~cop.done
    /\ cerr = "DestinationUnavailableError"
    /\ cop.prev = "dump"
    /\ \E i \in 1..Len(osbreeds) : DOMAIN osbreeds[i].osversions # {}
    /\ osbreeds = oldbreeds
    /\ signaturesjson = oldjson

\* C9: addVersion(b, n, A) followed by addVersion(b, n, B) on a valid b
\* raises nothing and leaves one version n in breed b, holding B; the
\* other versions of b and the other breeds are unchanged.
C9_Overwrite ==
    ( /\ cop.name = "addversion"
      /\ cop.prev = "addversion"
      /\ cop.previndex = cop.index
      /\ cop.prevversion = cop.version
      /\ InRange(cop.index, oldbreeds) ) =>
        /\ cerr = "none"
        /\ Len(osbreeds) = Len(oldbreeds)
        /\ cop.version \in DOMAIN At(oldbreeds, cop.index).osversions
        /\ DOMAIN At(osbreeds, cop.index).osversions
              = DOMAIN At(oldbreeds, cop.index).osversions
        /\ At(osbreeds, cop.index).osversions[cop.version] = cop.record
        /\ At(osbreeds, cop.index).name = At(oldbreeds, cop.index).name
        /\ \A v \in DOMAIN At(oldbreeds, cop.index).osversions \ {cop.version} :
              At(osbreeds, cop.index).osversions[v] = At(oldbreeds, cop.index).osversions[v]
        /\ \A i \in 1..Len(oldbreeds) : i # cop.index + 1 => osbreeds[i] = oldbreeds[i]

C9_Witness ==
    /\ cop.name = "addversion"
    /\ cop.prev = "addversion"
    /\ cop.previndex = cop.index
    /\ cop.prevversion = cop.version
    /\ InRange(cop.index, oldbreeds)
    /\ At(oldbreeds, cop.index).osversions[cop.version] = RecordA
    /\ cop.record = RecordB
    /\ At(osbreeds, cop.index).osversions[cop.version] = RecordB
    /\ cerr = "none"

\* C10: removeBreed(i) with i no position of a breed raises IndexError and
\* leaves every breed, in order and with its versions, as it was.
C10_RemoveOutOfRange ==
    (cop.name = "removebreed" /\ ~InRange(cop.index, oldbreeds)) =>
        /\ cerr = "IndexError"
        /\ osbreeds = oldbreeds

C10_Witness ==
    /\ cop.name = "removebreed"
    /\ cop.index = 5
    /\ Len(oldbreeds) = 2
    /\ cerr = "IndexError"
    /\ osbreeds = oldbreeds

\* C11: in every reachable catalog no two breeds have the same name, and
\* no breed has two versions with the same name.  The versions of a breed
\* are a mapping keyed by version name, so only the breed names can clash.
C11_UniqueNames ==
    \A i, j \in 1..Len(osbreeds) : osbreeds[i].name = osbreeds[j].name => i = j

\* The document with every fragment completed: the given value for a key
\* the fragment supplies, the declared default for a key it omits.
CompleteFragment(d) ==
    [f \in DeclaredFields |-> IF f \in DOMAIN d THEN d[f] ELSE DeclaredDefault(f)]

CompleteDocument(doc) ==
    [i \in 1..Len(doc) |->
        [name |-> doc[i].name,
         versions |-> [v \in DOMAIN doc[i].versions |->
                          CompleteFragment(doc[i].versions[v])]]]

\* C12: importing a well-typed document and exporting as STRING gives the
\* same breeds and versions, each fragment holding the values the document
\* supplied and the defaults for the keys it omitted.
C12_ImportExport ==
    (cop.name = "import" /\ cop.called /\ cop.done /\ ~IllTyped(signaturesjson)) =>
        /\ cerr = "none"
        /\ Len(osbreeds) = Len(signaturesjson)
        /\ ExportMenu([osbreeds |-> osbreeds, signaturesjson |-> signaturesjson],
                      "String", "", TRUE).output
              = Render(CompleteDocument(signaturesjson))

(***************************************************************************)
(* Equality of two records, on pairs of records drawn from a set in which  *)
(* every field takes several values of its type.                           *)
(***************************************************************************)

\* Values of the type of a field: lists with the same elements in two
\* orders, mappings with different keys.
EqValues(field) ==
    CASE FieldType(field) = "list" ->
            { List(<<>>), List(<<StrElem("a"), StrElem("b")>>),
              List(<<StrElem("b"), StrElem("a")>>) }
      [] FieldType(field) = "bool" -> { Bool(FALSE), Bool(TRUE) }
      [] FieldType(field) = "dict" ->
            { Dict(EmptyDict), Dict("grub" :> "grub.efi"), Dict("pxe" :> "grub.efi") }
      [] OTHER -> { Str(""), Str("a") }

\* The default record, and every record that differs from it in one field.
EqRecords ==
    UNION { { [Osversion EXCEPT ![field] = value] : value \in EqValues(field) } :
                 field \in FieldNames }

InitEq ==
    /\ rec \in EqRecords
    /\ other \in EqRecords
    /\ data = EmptyDict
    /\ old = rec
    /\ op = Op("init", "", NoValue)
    /\ err = "none"
    /\ steps = 0
    /\ InitCatalog
    /\ InitAux

\* rec == other; other == rec
Compare ==
    /\ op.name = "init"
    /\ equal' = [self_other |-> Eq(rec, other), other_self |-> Eq(other, rec)]
    /\ op' = Op("eq", "", NoValue)
    /\ UNCHANGED <<rec, data, other, old, err, steps, heap, arg>>
    /\ UNCHANGED catvars

NextEq == Compare

SpecEq == InitEq /\ [][NextEq]_vars

\* C13: two records compare equal exactly when all sixteen fields are
\* pairwise equal (lists in order, mappings by content), and the comparison
\* is symmetric.
C13_Equality ==
    op.name = "eq" =>
        /\ equal.self_other = TRUE <=> \A field \in DeclaredFields : rec[field] = other[field]
        /\ equal.self_other = equal.other_self

\* Two records that differ in template_files only compare unequal.
C13_Witness ==
    /\ op.name = "eq"
    /\ equal.self_other = FALSE
    /\ rec["template_files"] # other["template_files"]
    /\ \A field \in DeclaredFields \ {"template_files"} : rec[field] = other[field]

\* C14: a reset leaves the field at its documented default, still
\* readable, and leaves the other fifteen fields as they were.
C14_ResetFrame ==
    op.name = "del" =>
        /\ err = "none"
        /\ op.field \in DOMAIN rec
        /\ Getter(rec, op.field) = DeclaredDefault(op.field)
        /\ \A field \in DeclaredFields \ {op.field} : rec[field] = old[field]

\* A reset of a field of a record in which every field was set.
C14_Witness ==
    /\ op.name = "del"
    /\ \A field \in DeclaredFields : old[field] = Sample(field)
    /\ rec[op.field] = DeclaredDefault(op.field)
    /\ \A field \in DeclaredFields \ {op.field} : rec[field] = Sample(field)

\* C15: the catalog starts empty, and "start from scratch" returns it from
\* any state to the empty catalog: no breeds, the same as a freshly built
\* catalog, and an export of it gives the empty document.
C15_StartFromScratch ==
    /\ cop.name = "init" => osbreeds = <<>>
    /\ cop.name = "scratch" =>
          /\ cerr = "none"
          /\ Len(osbreeds) = 0
          /\ [osbreeds |-> osbreeds, signaturesjson |-> signaturesjson] = Signatures
          /\ ExportMenu([osbreeds |-> osbreeds, signaturesjson |-> signaturesjson],
                        "String", "", TRUE).output = Render(<<>>)
    /\ (cop.name = "export" /\ cop.prev = "scratch" /\ cop.called /\ cop.done) =>
          output = Render(<<>>)

\* Start from scratch on a catalog that held a breed with a version.
C15_Witness ==
    /\ cop.name = "scratch"
    /\ Len(oldbreeds) > 0
    /\ \E i \in 1..Len(oldbreeds) : DOMAIN oldbreeds[i].osversions # {}
    /\ Len(osbreeds) = 0

\* C16: for a valid breed index and a version name the breed does not
\* hold, addVersion(index, name, None) followed by removeVersion(index,
\* name) gives back the catalog as it was before the addVersion.
C16_AddRemoveVersion ==
    (/\ cop.name = "addremove"
     /\ InRange(cop.index, oldbreeds)
     /\ cop.version \notin DOMAIN At(oldbreeds, cop.index).osversions) =>
        /\ cerr = "none"
        /\ osbreeds = oldbreeds

\* One breed with no version, "15.2" added to it and removed again.
C16_Witness ==
    /\ cop.name = "addremove"
    /\ cop.index = 0
    /\ cop.version = "15.2"
    /\ oldbreeds = <<Osbreed("suse")>>
    /\ osbreeds = <<Osbreed("suse")>>
    /\ cerr = "none"

(***************************************************************************)
(* Object identity.  A list or a dict is an object in memory, and what a   *)
(* field, an encoded dict or a caller holds is a reference to it: the      *)
(* class of the object and its address in heap.  Setter, Encode and        *)
(* Decode pass on whatever they are given, here the reference.             *)
(***************************************************************************)
MaxAliasOps == 3

Ref(type, address) == [type |-> type, v |-> address]

IsRef(value) == value.type \in {"list", "dict"}

\* What a reference stands for: the object at its address.
Deref(h, value) == IF IsRef(value) THEN h[value.v] ELSE value

\* The fields of an object, as a reader of its properties sees them.
View(h, self) == [field \in DOMAIN self |-> Deref(h, Getter(self, field))]

\* The fields that hold a list or a dict, in the order __init__ creates them.
ObjectFields ==
    <<"signatures", "supported_arches", "supported_repo_breeds", "boot_files",
      "boot_loaders">>

\* Osversion() with its five new objects at the addresses after base.
NewOsversion(base) ==
    [field \in FieldNames |->
        IF \E i \in 1..Len(ObjectFields) : ObjectFields[i] = field
        THEN Ref(FieldType(field),
                 base + CHOOSE i \in 1..Len(ObjectFields) : ObjectFields[i] = field)
        ELSE DefaultOf(field)]

NewObjects == [i \in 1..Len(ObjectFields) |-> DefaultOf(ObjectFields[i])]

\* The objects a caller builds and passes to a setter, and the fields set.
CallerObjects == { List(<<StrElem("a")>>), Dict("grub" :> "grub.efi") }

AliasFields == {"signatures", "boot_loaders"}

\* list.append("x"), dict["x"] = "x"
Mutated(object) ==
    IF object.type = "list"
    THEN List(Append(object.v, StrElem("x")))
    ELSE Dict([k \in DOMAIN object.v \cup {"x"} |->
                  IF k = "x" THEN "x" ELSE object.v[k]])

InitAlias ==
    /\ heap = NewObjects \o NewObjects
    /\ rec = NewOsversion(0)
    /\ other = NewOsversion(Len(ObjectFields))
    /\ data = EmptyDict
    /\ arg = 0
    /\ old = View(heap, rec)
    /\ op = Op("init", "", NoValue)
    /\ err = "none"
    /\ steps = 0
    /\ equal = NotCompared
    /\ InitCatalog

AliasStep(name, field) ==
    /\ steps < MaxAliasOps
    /\ old' = View(heap, rec)
    /\ op' = Op(name, field, NoValue)
    /\ steps' = steps + 1
    /\ UNCHANGED <<equal, catvars>>

\* value = [...]; rec.<field> = value
AliasSet(field, object) ==
    /\ AliasStep("set", field)
    /\ heap' = Append(heap, object)
    /\ arg' = Len(heap) + 1
    /\ LET set == Setter(rec, field, Ref(object.type, Len(heap) + 1))
       IN  rec' = set.rec /\ err' = set.err
    /\ UNCHANGED <<data, other>>

\* data = rec.encode()
AliasEncode ==
    /\ AliasStep("encode", "")
    /\ data' = Encode(rec)
    /\ err' = "none"
    /\ UNCHANGED <<rec, other, heap, arg>>

\* other.decode(data)
AliasDecode ==
    /\ data # EmptyDict
    /\ AliasStep("decode", "")
    /\ LET dec == Decode(other, data)
       IN  other' = dec.rec /\ err' = dec.err
    /\ UNCHANGED <<rec, data, heap, arg>>

\* data[<key>].append("x"), data["boot_loaders"]["x"] = "x"
MutateEncoded(key) ==
    /\ data # EmptyDict
    /\ AliasStep("mutate_encoded", key)
    /\ heap' = [heap EXCEPT ![data[key].v] = Mutated(@)]
    /\ err' = "none"
    /\ UNCHANGED <<rec, data, other, arg>>

\* other.<field>.append("x"), other.boot_loaders["x"] = "x"
MutateDecoded(field) ==
    /\ AliasStep("mutate_decoded", field)
    /\ heap' = [heap EXCEPT ![Getter(other, field).v] = Mutated(@)]
    /\ err' = "none"
    /\ UNCHANGED <<rec, data, other, arg>>

\* value.append("x") on the object last passed to a setter
MutateArgument ==
    /\ arg # 0
    /\ AliasStep("mutate_argument", "")
    /\ heap' = [heap EXCEPT ![arg] = Mutated(@)]
    /\ err' = "none"
    /\ UNCHANGED <<rec, data, other, arg>>

NextAlias ==
    \/ \E field \in AliasFields, object \in CallerObjects : AliasSet(field, object)
    \/ AliasEncode
    \/ AliasDecode
    \/ \E key \in AliasFields : MutateEncoded(key)
    \/ \E field \in AliasFields : MutateDecoded(field)
    \/ MutateArgument

SpecAlias == InitAlias /\ [][NextAlias]_vars

\* C17: changing a list or a mapping found in an encode() result, in a
\* record decoded from it, or passed earlier to a setter, changes no field
\* of the encoded record.
C17_NoAliasing ==
    op.name \in {"mutate_encoded", "mutate_decoded", "mutate_argument"} =>
        View(heap, rec) = old

\* A list with an element that is not a string.
HasNonString(value) ==
    /\ value.type = "list"
    /\ \E i \in 1..Len(value.v) : value.v[i].type # "str"

\* C18: for the four sequence fields, a setter called (directly or by
\* decode) with a list that has a non-string element raises the validation
\* error and the field keeps its previous value.
C18_ElementRejection ==
    /\ (op.name = "set" /\ op.field \in SequenceFields /\ HasNonString(op.value)) =>
          /\ err = "TypeError"
          /\ rec[op.field] = old[op.field]
    /\ op.name = "decode" =>
          \A field \in SequenceFields \cap DOMAIN data :
              HasNonString(data[field]) =>
                  /\ err = "TypeError"
                  /\ rec[field] = old[field]

\* C19: whatever setters, resets and decodes were called, and whether they
\* failed or not, each of the ten string fields holds a string, isolinux_ok
\* a boolean, each of the four sequence fields a list and boot_loaders a
\* mapping.
C19_FieldTypes ==
    /\ DOMAIN rec = DeclaredFields
    /\ \A field \in DeclaredFields : Getter(rec, field).type = DeclaredType(field)
    /\ \A field \in DeclaredFields : Getter(other, field).type = DeclaredType(field)

\* A decode that failed after it had assigned some fields, as the last
\* operation of a run.
C19_Witness ==
    /\ op.name = "decode"
    /\ err = "TypeError"
    /\ rec # old
    /\ steps = MaxRecOps
    /\ \A field \in DeclaredFields : rec[field].type = DeclaredType(field)

\* C20: when decode fails on a present key of the wrong type, all sixteen
\* fields hold the values they had before the call, the fields whose keys
\* come earlier with valid values included.
C20_DecodeAtomic ==
    (/\ op.name = "decode"
     /\ err = "TypeError"
     /\ \E key \in DeclaredFields \cap DOMAIN data : data[key].type # DeclaredType(key)) =>
        \A field \in DeclaredFields : rec[field] = old[field]

(***************************************************************************)
(* The edit menu of cli.py: each entry asks for a breed name, looks the    *)
(* name up in os_signatures.osbreeds and calls the catalog operation with  *)
(* the index it found.                                                     *)
(***************************************************************************)
MaxBreeds == 3

MaxMenuOps == 2

\* name == os_signatures.osbreeds[index]: the breed is the one of that name.
Matches(name, breed) == name = breed.name

NotFound == -1

\* for index in candidates: if name == osbreeds[index]: ...; break
\* The index of the first candidate that matches, NotFound when the loop
\* ends without a match, IndexError when a candidate is no position of the
\* list.
RECURSIVE LookupFrom(_, _, _, _)
LookupFrom(breeds, name, candidates, k) ==
    IF k > Len(candidates) THEN [index |-> NotFound, err |-> "none"]
    ELSE LET index == candidates[k]
         IN  IF ~InRange(index, breeds) THEN [index |-> NotFound, err |-> "IndexError"]
             ELSE IF Matches(name, At(breeds, index)) THEN [index |-> index, err |-> "none"]
             ELSE LookupFrom(breeds, name, candidates, k + 1)

\* for index in [0, len(os_signatures.osbreeds) - 1]
Lookup(breeds, name) == LookupFrom(breeds, name, <<0, Len(breeds) - 1>>, 1)

\* for index in [0, len(os_signatures.osbreeds)]
LookupForRemove(breeds, name) == LookupFrom(breeds, name, <<0, Len(breeds)>>, 1)

\* The catalogs the menu is entered with: up to MaxBreeds breeds, names
\* repeated or not, the breed at an odd position holding version "10" and
\* the one at an even position version "15.2".
LookupBreeds(names) ==
    [i \in 1..Len(names) |->
        [name |-> names[i],
         osversions |-> IF i % 2 = 1 THEN ("10" :> Osversion) ELSE ("15.2" :> RecordA)]]

LookupNames == BreedNames \cup {"fedora"}

LookupCatalogs ==
    UNION { { LookupBreeds(names) : names \in [1..n -> LookupNames] } : n \in 0..MaxBreeds }

\* The names the prompts are answered with; no breed is called "arch".
PromptNames == LookupNames \cup {"arch"}

InitLookup ==
    /\ osbreeds \in LookupCatalogs
    /\ signaturesjson = Signatures.signaturesjson
    /\ output = NoOutput
    /\ loaded = <<>>
    /\ oldbreeds = osbreeds
    /\ oldjson = <<>>
    /\ cop = [name |-> "init", prev |-> "", previndex |-> 0, prevversion |-> "",
              index |-> 0, breed |-> "", version |-> "", record |-> Osversion,
              field |-> "", value |-> NoValue, called |-> FALSE, done |-> FALSE]
    /\ cerr = "none"
    /\ csteps = 0
    /\ InitRecord
    /\ InitAux

\* One entry of the menu: the name asked for, whether a breed was found
\* and at which index.
Menu(entry, name, look) ==
    /\ csteps < MaxMenuOps
    /\ oldbreeds' = osbreeds
    /\ oldjson' = signaturesjson
    /\ cop' = [CatOp(entry) EXCEPT !.breed = name, !.index = look.index,
                                   !.called = (look.index # NotFound)]
    /\ csteps' = csteps + 1
    /\ UNCHANGED <<recvars, auxvars, signaturesjson, loaded>>

\* What a menu entry does with the result of its lookup.
Apply(look, result) ==
    IF look.err # "none" THEN osbreeds' = osbreeds /\ cerr' = look.err
    ELSE IF look.index = NotFound THEN osbreeds' = osbreeds /\ cerr' = "none"
    ELSE osbreeds' = result.osbreeds /\ cerr' = result.err

\* "Remove Operating System Breed"
menuRemoveBreed(name) ==
    LET look == LookupForRemove(osbreeds, name)
    IN  /\ Menu("menu_removebreed", name, look)
        /\ Apply(look, RemoveOsBreed(osbreeds, look.index))
        /\ UNCHANGED output

\* "Edit the name of an Operating System Breed"
menuRenameBreed(name, newname) ==
    LET look == Lookup(osbreeds, name)
    IN  /\ Menu("menu_renamebreed", name, look)
        /\ Apply(look, RenameOsBreed(osbreeds, look.index, newname))
        /\ UNCHANGED output

\* "Add Operating System Version"
menuAddVersion(name, version) ==
    LET look == Lookup(osbreeds, name)
    IN  /\ Menu("menu_addversion", name, look)
        /\ Apply(look, AddOsVersion(osbreeds, look.index, version, Osversion))
        /\ UNCHANGED output

\* "Remove Operating System Version"
menuRemoveVersion(name, version) ==
    LET look == Lookup(osbreeds, name)
    IN  /\ Menu("menu_removeversion", name, look)
        /\ Apply(look, RemoveOsVersion(osbreeds, look.index, version))
        /\ UNCHANGED output

\* get_os_version_names(name)
listVersions(name) ==
    LET look == Lookup(osbreeds, name)
    IN  /\ Menu("menu_listversions", name, look)
        /\ Apply(look, [osbreeds |-> osbreeds, err |-> "none"])
        /\ output' = [names |-> IF look.index = NotFound THEN {}
                                ELSE DOMAIN At(osbreeds, look.index).osversions]

NextLookup ==
    \/ \E name \in PromptNames : menuRemoveBreed(name)
    \/ \E name \in PromptNames, newname \in {"suse"} : menuRenameBreed(name, newname)
    \/ \E name \in PromptNames, version \in {"15.2"} : menuAddVersion(name, version)
    \/ \E name \in PromptNames, version \in {"10"} : menuRemoveVersion(name, version)
    \/ \E name \in PromptNames : listVersions(name)

SpecLookup == InitLookup /\ [][NextLookup]_vars

MenuEntries ==
    { "menu_removebreed", "menu_renamebreed", "menu_addversion", "menu_removeversion",
      "menu_listversions" }

\* The position of the first breed of that name, counted from 0.
FirstMatch(breeds, name) ==
    (CHOOSE i \in 1..Len(breeds) :
        /\ breeds[i].name = name
        /\ \A j \in 1..(i - 1) : breeds[j].name # name) - 1

\* C21: the lookup of a name that some breed holds, at whatever position,
\* finds a breed, and finds the first one of that name.
C21_LookupFindsFirst ==
    (/\ cop.name \in MenuEntries
     /\ \E i \in 1..Len(oldbreeds) : oldbreeds[i].name = cop.breed) =>
        /\ cerr # "IndexError"
        /\ cop.called
        /\ cop.index = FirstMatch(oldbreeds, cop.breed)

\* C22: the lookup of a name that no breed holds, on an empty catalog too,
\* ends without an error and without a breed, and the catalog is as it was.
C22_LookupNotFound ==
    (/\ cop.name \in MenuEntries
     /\ \A i \in 1..Len(oldbreeds) : oldbreeds[i].name # cop.breed) =>
        /\ cerr = "none"
        /\ ~cop.called
        /\ osbreeds = oldbreeds
        /\ cop.name = "menu_listversions" => output = [names |-> {}]

\* C23: renameBreed on a valid index changes the name of that breed and
\* nothing else: its versions, the number and order of the breeds and
\* every other breed stay as they were.
C23_RenameFrame ==
    (cop.name = "renamebreed" /\ InRange(cop.index, oldbreeds)) =>
        /\ cerr = "none"
        /\ Len(osbreeds) = Len(oldbreeds)
        /\ At(osbreeds, cop.index).name = cop.breed
        /\ At(osbreeds, cop.index).osversions = At(oldbreeds, cop.index).osversions
        /\ \A i \in 1..Len(oldbreeds) : i # cop.index + 1 => osbreeds[i] = oldbreeds[i]

\* The second of two breeds, each with versions, given another name.
C23_Witness ==
    /\ cop.name = "renamebreed"
    /\ cop.index = 1
    /\ Len(oldbreeds) = 2
    /\ \A i \in 1..2 : DOMAIN oldbreeds[i].osversions # {}
    /\ osbreeds[2].name # oldbreeds[2].name
    /\ osbreeds[2].osversions = oldbreeds[2].osversions
    /\ osbreeds[1] = oldbreeds[1]

\* C24: a decode that succeeds leaves a record that depends on the
\* fragment only: the fragment's value for each key it holds, the default
\* for each key it lacks whatever the field held before, the same record as
\* a fresh one or any other one decoded with that fragment, and the same as
\* with the fragment's unknown keys taken away.
C24_DecodeDetermines ==
    (op.name = "decode" /\ err = "none") =>
        /\ \A field \in DeclaredFields :
              rec[field] = IF field \in DOMAIN data THEN data[field]
                           ELSE DeclaredDefault(field)
        /\ Eq(rec, Decode(Osversion, data).rec)
        /\ Eq(rec, Decode(other, data).rec)
        /\ Eq(rec, Decode(old, Restrict(data, DOMAIN data \cap DeclaredFields)).rec)

\* A decode of a fragment that lacks the key of a field set before.
C24_Witness ==
    /\ op.name = "decode"
    /\ err = "none"
    /\ \E field \in DeclaredFields \ DOMAIN data :
          /\ old[field] # DeclaredDefault(field)
          /\ rec[field] = DeclaredDefault(field)

====
